---- MODULE Spec2Model ----
(***************************************************************************)
(* Async::AudioDevice (AsyncAudioDevice.cpp): the registry of shared OSS   *)
(* audio devices, the open/close mode negotiation and the output-ready     *)
(* write loop.                                                             *)
(***************************************************************************)
EXTENDS Integers, Sequences, FiniteSets, TLC

(***************************************************************************)
(* Bounds of the model                                                     *)
(***************************************************************************)
\* Descriptors the process may hold open at once; ::open fails beyond it.
MaxFds == 1

(***************************************************************************)
(* Values                                                                  *)
(***************************************************************************)
Names == {"dsp0"}
AudioIOs == {"io1", "io2"}
\* Heap addresses for AudioDevice objects; 0 is the null pointer.
DevPtrs == 1 .. (Cardinality(Names) + 1)

MODE_NONE == "NONE"
MODE_RD == "RD"
MODE_WR == "WR"
MODE_RDWR == "RDWR"
Modes == {MODE_NONE, MODE_RD, MODE_WR, MODE_RDWR}

DSP_CAP_DUPLEX == "DUPLEX"
DSP_CAP_TRIGGER == "TRIGGER"
Caps == {DSP_CAP_DUPLEX, DSP_CAP_TRIGGER}

AFMT_S16_NE == "S16_NE"
AFMT_U8 == "U8"

\* if (abs(arg - sample_rate) > 100)
RateTolerance == 100

ChannelCounts == {1, 2}

NoWatch == [fd |-> -1, type |-> "none"]
FdWatch(f, t) == [fd |-> f, type |-> t]

VARIABLES
  devices,      \* map<string, AudioDevice*>: name -> heap address, 0 when absent
  heap,         \* heap address -> AudioDevice object
  live,         \* heap addresses holding a constructed AudioDevice
  fds,          \* descriptors the process holds open
  watches,      \* FdWatch objects that exist
  io_dev,       \* AudioIO -> the AudioDevice it registered with (0: none)
  io_mode,      \* AudioIO -> AudioIO::mode()
  notrigger,    \* the environment variable ASYNC_AUDIO_NOTRIGGER
  channels,     \* static int AudioDevice::channels
  last,         \* the last call and what it returned
  io_channel,   \* AudioIO -> AudioIO::channel()
  io_idle,      \* AudioIO -> AudioIO::isIdle()
  io_flush,     \* AudioIO -> AudioIO::doFlush()
  io_queue,     \* AudioIO -> the samples it holds for readSamples()
  write_enabled, \* write_watch->isEnabled()
  pc,           \* where the event loop is: idle, or inside writeSpaceAvailable
  iter,         \* the last iteration of the write loop and what it did
  inp,          \* the last input-ready event: what was read
  rx            \* AudioIO -> the audioRead() calls the last event made on it

lifeVars == <<devices, heap, live, fds, watches, io_dev, io_mode, notrigger,
              channels, last>>
writeVars == <<io_channel, io_idle, io_flush, io_queue, write_enabled, pc, iter>>
readVars == <<inp, rx>>
vars == <<lifeVars, writeVars, readVars>>

(***************************************************************************)
(* AudioDevice objects                                                     *)
(***************************************************************************)
\* use_trigger = (use_trigger_str != 0) && (atoi(use_trigger_str) == 0)
UseTrigger(str) == (str # "unset") /\ (str = "0")

\* The constructor's member initialisers.
AudioDevice(name, str) ==
  [dev_name |-> name, use_count |-> 0, current_mode |-> MODE_NONE, fd |-> -1,
   read_watch |-> NoWatch, write_watch |-> NoWatch, read_buf |-> FALSE,
   device_caps |-> {}, aios |-> <<>>, use_trigger |-> UseTrigger(str)]

\* Freed memory.
NoDevice == AudioDevice("", "unset")

\* What the backend answers during one open(): the system call that returns
\* -1 (if any), the capability bits and the values the driver writes back.
\* One answer per call that can fail and per value that can come back wrong;
\* the capability bits vary where the code reads them.
Answer(f, c, fmt, chans, rate) ==
  [fail |-> f, caps |-> c, fmt |-> fmt, chans |-> chans, rate |-> rate]
BackendAnswers ==
  {Answer(f, {}, AFMT_S16_NE, 0, 0) : f \in {"open", "GETCAPS"}}
  \cup
  {Answer("none", c, AFMT_S16_NE, 0, 0) : c \in SUBSET Caps}
  \cup
  {Answer(f, {DSP_CAP_TRIGGER}, AFMT_S16_NE, 0, 0) :
      f \in {"SETTRIGGER_off", "SETTRIGGER_on"}}
  \cup
  {Answer(f, {DSP_CAP_DUPLEX}, AFMT_S16_NE, 0, 0) :
      f \in {"SETFRAGMENT", "SETFMT", "CHANNELS", "SPEED", "GETBLKSIZE"}}
  \cup
  {Answer("none", {DSP_CAP_DUPLEX}, m[1], m[2], m[3]) :
      m \in {<<AFMT_U8, 0, 0>>, <<AFMT_S16_NE, 1, 0>>,
             <<AFMT_S16_NE, 0, RateTolerance>>,
             <<AFMT_S16_NE, 0, RateTolerance + 1>>,
             <<AFMT_S16_NE, 0, 0 - (RateTolerance + 1)>>}}

Abs(x) == IF x < 0 THEN 0 - x ELSE x

\* State threaded through the device's methods: the object, the process's
\* descriptors and watches, the backend calls made so far, the return value.
Thread(d, f, w) == [d |-> d, fds |-> f, watches |-> w, calls |-> {}, ret |-> TRUE]

\* closeDevice that closes the descriptor and leaves the watches alone.
closeDevice_keepsWatches(s) ==
  [s EXCEPT !.d = [@ EXCEPT !.current_mode = MODE_NONE,
                            !.fd = -1],
            !.fds = IF s.d.fd # -1 THEN @ \ {s.d.fd} ELSE @,
            !.calls = IF s.d.fd # -1 THEN @ \cup {"close"} ELSE @]

\* void AudioDevice::closeDevice(void)
closeDevice(s) ==
  [s EXCEPT !.d = [@ EXCEPT !.current_mode = MODE_NONE,
                            !.write_watch = NoWatch,
                            !.read_watch = NoWatch,
                            !.fd = -1],
            !.watches = @ \ {s.d.write_watch, s.d.read_watch},
            !.fds = IF s.d.fd # -1 THEN @ \ {s.d.fd} ELSE @,
            !.calls = IF s.d.fd # -1 THEN @ \cup {"close"} ELSE @]

\* close(): returns without closing when a registered AudioIO is not idle.
close(s, modes) ==
  IF \E i \in 1 .. Len(s.d.aios) : modes[s.d.aios[i]] # MODE_NONE
    THEN s
    ELSE closeDevice(s)

\* perror(...); close(); return false;
closeAndFail(s, modes) == [close(s, modes) EXCEPT !.ret = FALSE]

\* ::open hands out the lowest free descriptor.
FdNumbers == 0 .. (MaxFds - 1)
LowestFree(f) == CHOOSE n \in FdNumbers : n \notin f /\ \A k \in 0 .. (n - 1) : k \in f

\* open(), from the ioctls after a successful ::open to the end.
openConfigure(s, mode, modes, e) ==
  LET s1 == [s EXCEPT !.calls = @ \cup {"ioctl"}]
      s2 == [s1 EXCEPT !.d.device_caps = e.caps]
      trig == s.d.use_trigger /\ (DSP_CAP_TRIGGER \in e.caps)
      rd == IF mode \in {MODE_RD, MODE_RDWR}
              THEN FdWatch(s.d.fd, "RD") ELSE s2.d.read_watch
      wr == IF mode \in {MODE_WR, MODE_RDWR}
              THEN FdWatch(s.d.fd, "WR") ELSE s2.d.write_watch
      s3 == [s2 EXCEPT !.d.current_mode = mode,
                       !.d.read_watch = rd,
                       !.d.write_watch = wr,
                       !.watches = (@ \cup {rd, wr}) \ {NoWatch}]
  IN  IF e.fail = "GETCAPS" THEN closeAndFail(s1, modes)
      ELSE IF trig /\ e.fail = "SETTRIGGER_off" THEN closeAndFail(s2, modes)
      ELSE IF e.fail = "SETFRAGMENT" THEN closeAndFail(s2, modes)
      ELSE IF e.fail = "SETFMT" THEN closeAndFail(s2, modes)
      ELSE IF e.fmt # AFMT_S16_NE THEN closeAndFail(s2, modes)
      ELSE IF e.fail = "CHANNELS" THEN closeAndFail(s2, modes)
      ELSE IF channels + e.chans # channels THEN closeAndFail(s2, modes)
      ELSE IF e.fail = "SPEED" THEN closeAndFail(s2, modes)
      ELSE IF Abs(e.rate) > RateTolerance THEN closeAndFail(s2, modes)
      ELSE IF trig /\ e.fail = "SETTRIGGER_on" THEN closeAndFail(s3, modes)
      ELSE IF e.fail = "GETBLKSIZE" THEN closeAndFail(s3, modes)
      ELSE [s3 EXCEPT !.d.read_buf = TRUE, !.ret = TRUE]

\* open(), from "if (fd != -1) closeDevice()" on, with the resolved mode.
openBackend(s, mode, modes, e) ==
  LET s1 == IF s.d.fd # -1 THEN closeDevice(s) ELSE s
  IN  IF mode = MODE_NONE THEN [s1 EXCEPT !.ret = TRUE]
      ELSE LET s2 == [s1 EXCEPT !.calls = @ \cup {"open"}]
           IN  IF e.fail = "open" \/ FdNumbers \subseteq s2.fds
                 THEN [s2 EXCEPT !.d.fd = -1, !.ret = FALSE]
                 ELSE LET n == LowestFree(s2.fds)
                      IN  openConfigure([s2 EXCEPT !.d.fd = n, !.fds = @ \cup {n}],
                                        mode, modes, e)

\* open() without its two early returns: every call goes to the backend.
open_alwaysReopens(s, mode, modes, e) ==
  LET s1 == IF mode = MODE_NONE THEN close(s, modes) ELSE s
      m == IF s1.d.current_mode # MODE_NONE /\ mode # s1.d.current_mode
             THEN MODE_RDWR ELSE mode
  IN  openBackend(s1, m, modes, e)

\* bool AudioDevice::open(Mode mode)
open(s, mode, modes, e) ==
  IF mode = s.d.current_mode THEN [s EXCEPT !.ret = TRUE]
  ELSE LET s1 == IF mode = MODE_NONE THEN close(s, modes) ELSE s
       IN  IF s1.d.current_mode = MODE_RDWR THEN [s1 EXCEPT !.ret = TRUE]
           ELSE LET m == IF s1.d.current_mode # MODE_NONE /\ mode # s1.d.current_mode
                           THEN MODE_RDWR ELSE mode
                IN  openBackend(s1, m, modes, e)

\* bool AudioDevice::isFullDuplexCapable(void)
isFullDuplexCapable(d) == DSP_CAP_DUPLEX \in d.device_caps

(***************************************************************************)
(* The registry                                                            *)
(***************************************************************************)
\* new AudioDevice: the allocator's choice of a free address.
NewPtr(l) == CHOOSE p \in DevPtrs : p \notin l /\ \A q \in DevPtrs \ l : p <= q

World == [devices |-> devices, heap |-> heap, live |-> live, fds |-> fds,
          watches |-> watches, calls |-> {}]

\* registerAudioIO that leaves the probed device open.
registerAudioIO_keepsProbeOpen(w, dev_name, audio_io, e, modes) ==
  LET miss == w.devices[dev_name] = 0
      p == IF miss THEN NewPtr(w.live) ELSE w.devices[dev_name]
      s1 == open(Thread(AudioDevice(dev_name, notrigger), w.fds, w.watches),
                 MODE_RDWR, modes, e)
      w1 == IF miss
              THEN [w EXCEPT !.devices[dev_name] = p,
                             !.heap[p] = s1.d,
                             !.live = @ \cup {p},
                             !.fds = s1.fds,
                             !.watches = s1.watches,
                             !.calls = s1.calls]
              ELSE w
  IN  [w1 EXCEPT !.heap[p].use_count = @ + 1,
                 !.heap[p].aios = Append(@, audio_io)]

\* AudioDevice *AudioDevice::registerAudioIO(dev_name, audio_io); the device
\* is devices[dev_name] of the result.
registerAudioIO(w, dev_name, audio_io, e, modes) ==
  LET miss == w.devices[dev_name] = 0
      p == IF miss THEN NewPtr(w.live) ELSE w.devices[dev_name]
      s1 == open(Thread(AudioDevice(dev_name, notrigger), w.fds, w.watches),
                 MODE_RDWR, modes, e)
      s2 == IF s1.ret THEN close(s1, modes) ELSE s1
      w1 == IF miss
              THEN [w EXCEPT !.devices[dev_name] = p,
                             !.heap[p] = s2.d,
                             !.live = @ \cup {p},
                             !.fds = s2.fds,
                             !.watches = s2.watches,
                             !.calls = s2.calls]
              ELSE w
  IN  [w1 EXCEPT !.heap[p].use_count = @ + 1,
                 !.heap[p].aios = Append(@, audio_io)]

\* find(dev->aios.begin(), dev->aios.end(), audio_io)
Find(aios, audio_io) ==
  IF \E i \in 1 .. Len(aios) : aios[i] = audio_io
    THEN CHOOSE i \in 1 .. Len(aios) :
           aios[i] = audio_io /\ \A j \in 1 .. (i - 1) : aios[j] # audio_io
    ELSE 0

Erase(aios, i) == SubSeq(aios, 1, i - 1) \o SubSeq(aios, i + 1, Len(aios))

\* unregisterAudioIO that destroys the device when its client list is empty
\* and never decrements use_count.
unregisterAudioIO_keepsCount(w, audio_io, dev) ==
  LET d == w.heap[dev]
      aios1 == Erase(d.aios, Find(d.aios, audio_io))
  IN  IF Len(aios1) = 0
        THEN [w EXCEPT !.devices[d.dev_name] = 0,
                       !.heap[dev] = NoDevice,
                       !.live = @ \ {dev}]
        ELSE [w EXCEPT !.heap[dev].aios = aios1]

\* void AudioDevice::unregisterAudioIO(audio_io), dev == audio_io->device();
\* the two assertions are the caller's guard.
unregisterAudioIO(w, audio_io, dev) ==
  LET d == w.heap[dev]
      aios1 == Erase(d.aios, Find(d.aios, audio_io))
      cnt == d.use_count - 1
  IN  IF cnt = 0
        THEN [w EXCEPT !.devices[d.dev_name] = 0,
                       !.heap[dev] = NoDevice,
                       !.live = @ \ {dev}]
        ELSE [w EXCEPT !.heap[dev].aios = aios1,
                       !.heap[dev].use_count = cnt]

(***************************************************************************)
(* The calls                                                               *)
(***************************************************************************)
\* Every AudioIO registered with the device is idle.
AllIdle(d, modes) == \A i \in 1 .. Len(d.aios) : modes[d.aios[i]] = MODE_NONE

\* The record of a call: the operation, the AudioIO that made it, the mode it
\* asked for, what the call returned and the kinds of backend call it made.
Call(op, io, req, ret, calls) ==
  [op |-> op, io |-> io, req |-> req, ret |-> ret, calls |-> calls]

SetWorld(w) ==
  /\ devices' = w.devices
  /\ heap' = w.heap
  /\ live' = w.live
  /\ fds' = w.fds
  /\ watches' = w.watches

\* An AudioIO is constructed for a device name and registers itself.
Register(io, name, e) ==
  /\ io_dev[io] = 0
  /\ \E w \in {registerAudioIO(World, name, io, e, io_mode)} :
         /\ SetWorld(w)
         /\ io_dev' = [io_dev EXCEPT ![io] = w.devices[name]]
         /\ last' = Call("register", io, MODE_NONE, TRUE, w.calls)
  /\ UNCHANGED <<io_mode, notrigger, channels, writeVars, readVars>>

\* An AudioIO is destroyed and unregisters itself.
Unregister(io) ==
  /\ io_dev[io] # 0
  /\ heap[io_dev[io]].use_count > 0
  /\ Find(heap[io_dev[io]].aios, io) # 0
  /\ \E w \in {unregisterAudioIO(World, io, io_dev[io])} : SetWorld(w)
  /\ io_dev' = [io_dev EXCEPT ![io] = 0]
  /\ io_mode' = [io_mode EXCEPT ![io] = MODE_NONE]
  /\ last' = Call("unregister", io, MODE_NONE, TRUE, {})
  /\ UNCHANGED <<notrigger, channels, writeVars, readVars>>

\* An AudioIO asks its device for a mode and takes the mode when the device
\* returns success.
Open(io, mode, e) ==
  /\ io_dev[io] # 0
  /\ \E p \in {io_dev[io]} :
     \E s \in {open(Thread(heap[p], fds, watches), mode, io_mode, e)} :
         /\ heap' = [heap EXCEPT ![p] = s.d]
         /\ fds' = s.fds
         /\ watches' = s.watches
         /\ io_mode' = [io_mode EXCEPT ![io] = IF s.ret THEN mode ELSE @]
         /\ last' = Call("open", io, mode, s.ret, s.calls)
  /\ UNCHANGED <<devices, live, io_dev, notrigger, channels, writeVars, readVars>>

\* An AudioIO goes idle and asks its device to close.
Close(io) ==
  /\ io_dev[io] # 0
  /\ \E p \in {io_dev[io]}, modes \in {[io_mode EXCEPT ![io] = MODE_NONE]} :
     \E s \in {close(Thread(heap[p], fds, watches), modes)} :
         /\ heap' = [heap EXCEPT ![p] = s.d]
         /\ fds' = s.fds
         /\ watches' = s.watches
         /\ io_mode' = modes
         /\ last' = Call("close", io, MODE_NONE, TRUE, s.calls)
  /\ UNCHANGED <<devices, live, io_dev, notrigger, channels, writeVars, readVars>>

NoCall == Call("none", "", MODE_NONE, TRUE, {})

\* Nothing allocated, nothing open.
NoWorld == [devices |-> [n \in Names |-> 0], heap |-> [p \in DevPtrs |-> NoDevice],
            live |-> {}, fds |-> {}, watches |-> {}, calls |-> {}]

\* No iteration of the write loop has run since the producers last changed.
NoIter == [exit |-> "none", free |-> 0, fragsize |-> 0, resolved |-> 0,
           asked |-> 0, frames |-> 0, do_flush |-> FALSE, again |-> FALSE,
           n |-> 0, writes |-> 0, entry |-> 0,
           pulled |-> [a \in AudioIOs |-> 0],
           pre |-> [a \in AudioIOs |-> <<>>],
           buf |-> <<>>]

\* No input-ready event has been handled.
NoRead == [exit |-> "none", fragments |-> 0, cnt |-> 0, raw |-> <<>>]
NoInput ==
  /\ inp = NoRead
  /\ rx = [a \in AudioIOs |-> <<>>]

\* The AudioIOs have no output stream while the device is negotiated.
NoOutput ==
  /\ io_channel = [a \in AudioIOs |-> 0]
  /\ io_idle = [a \in AudioIOs |-> TRUE]
  /\ io_flush = [a \in AudioIOs |-> FALSE]
  /\ io_queue = [a \in AudioIOs |-> <<>>]
  /\ write_enabled = FALSE
  /\ pc = "idle"
  /\ iter = NoIter

Init ==
  /\ devices = NoWorld.devices
  /\ heap = NoWorld.heap
  /\ live = NoWorld.live
  /\ fds = NoWorld.fds
  /\ watches = NoWorld.watches
  /\ io_dev = [a \in AudioIOs |-> 0]
  /\ io_mode = [a \in AudioIOs |-> MODE_NONE]
  /\ notrigger \in {"unset", "0"}
  /\ channels \in ChannelCounts
  /\ last = NoCall
  /\ NoOutput
  /\ NoInput

Next ==
  \/ \E io \in AudioIOs, name \in Names, e \in BackendAnswers : Register(io, name, e)
  \/ \E io \in AudioIOs : Unregister(io)
  \/ \E io \in AudioIOs, mode \in Modes, e \in BackendAnswers : Open(io, mode, e)
  \/ \E io \in AudioIOs : Close(io)

Spec == Init /\ [][Next]_vars

(***************************************************************************)
(* The write loop: writeSpaceAvailable                                     *)
(***************************************************************************)
\* int16_t buf[32768]
BufSize == 32768
\* sizeof(int16_t)
SampleBytes == 2
\* float sample = 32767.0 * tmp[i] + buf[buf_pos]
FullScale == 32767
\* A float sample is held as a whole number of 1/SampleDen: 4 is +1.0.
SampleDen == 4

Min(a, b) == IF a < b THEN a ELSE b

\* static_cast<int16_t>(x) of a value in range: the fraction is dropped.
Trunc(n, d) == IF n >= 0 THEN n \div d ELSE 0 - ((0 - n) \div d)

\* An AudioIO as the write loop reads it.
Producer(a) == [idle |-> io_idle[a], flush |-> io_flush[a],
                queue |-> io_queue[a], channel |-> io_channel[a]]
Producers == [a \in AudioIOs |-> Producer(a)]

\* int AudioIO::readSamples(float *samples, int count): hands over the oldest
\* samples, at most count of them, and keeps the rest.
readSamples(queue, count) ==
  [samples_read |-> Min(count, Len(queue)),
   tmp |-> SubSeq(queue, 1, Min(count, Len(queue))),
   rest |-> SubSeq(queue, Min(count, Len(queue)) + 1, Len(queue))]

\* The loop over aios that finds how many frames the producers allow, without
\* lowering frames_to_write for a producer that does not flush.
RECURSIVE scanAios_ignoresNonFlush(_, _, _, _)
scanAios_ignoresNonFlush(aios, P, i, acc) ==
  IF i > Len(aios) THEN acc
  ELSE LET p == P[aios[i]]
           samples_avail == Len(p.queue)
           acc1 == IF p.idle THEN acc
                   ELSE [do_flush |-> acc.do_flush /\ p.flush,
                         frames_to_write |-> acc.frames_to_write,
                         max_samples_in_fifo |->
                           IF samples_avail > acc.max_samples_in_fifo
                             THEN samples_avail ELSE acc.max_samples_in_fifo]
       IN  CHOOSE r \in {scanAios_ignoresNonFlush(aios, P, i + 1, a) :
                            a \in {acc1}} : TRUE

\* The loop over aios that finds how many frames the producers allow.
RECURSIVE scanAios(_, _, _, _)
scanAios(aios, P, i, acc) ==
  IF i > Len(aios) THEN acc
  ELSE LET p == P[aios[i]]
           samples_avail == Len(p.queue)
           acc1 == IF p.idle THEN acc
                   ELSE [do_flush |-> acc.do_flush /\ p.flush,
                         frames_to_write |->
                           IF ~p.flush /\ samples_avail < acc.frames_to_write
                             THEN samples_avail ELSE acc.frames_to_write,
                         max_samples_in_fifo |->
                           IF samples_avail > acc.max_samples_in_fifo
                             THEN samples_avail ELSE acc.max_samples_in_fifo]
       IN  CHOOSE r \in {scanAios(aios, P, i + 1, a) : a \in {acc1}} : TRUE

\* From the scan on, without the rounding down of a write that does not
\* flush.
resolveFrames_noRoundDown(aios, P, frames_to_write, fragsize) ==
  LET s == scanAios(aios, P, 1, [do_flush |-> TRUE,
                                 frames_to_write |-> frames_to_write,
                                 max_samples_in_fifo |-> 0])
  IN  [do_flush |-> s.do_flush /\ (s.max_samples_in_fifo <= s.frames_to_write),
       frames_to_write |-> Min(s.frames_to_write, s.max_samples_in_fifo)]

\* From the scan on, rounding down to whole fragments whether the write
\* flushes or not.
resolveFrames_alwaysRoundsDown(aios, P, frames_to_write, fragsize) ==
  LET s == scanAios(aios, P, 1, [do_flush |-> TRUE,
                                 frames_to_write |-> frames_to_write,
                                 max_samples_in_fifo |-> 0])
      ftw == Min(s.frames_to_write, s.max_samples_in_fifo)
  IN  [do_flush |-> s.do_flush /\ (s.max_samples_in_fifo <= s.frames_to_write),
       frames_to_write |-> (ftw \div fragsize) * fragsize]

\* From the scan to the rounding down of a write that does not flush.
resolveFrames(aios, P, frames_to_write, fragsize) ==
  LET s == scanAios(aios, P, 1, [do_flush |-> TRUE,
                                 frames_to_write |-> frames_to_write,
                                 max_samples_in_fifo |-> 0])
      do_flush == s.do_flush /\ (s.max_samples_in_fifo <= s.frames_to_write)
      ftw == Min(s.frames_to_write, s.max_samples_in_fifo)
  IN  [do_flush |-> do_flush,
       frames_to_write |-> IF ~do_flush THEN (ftw \div fragsize) * fragsize
                                        ELSE ftw]

\* The sample stored at a slot that wraps to 16 bits instead of clamping.
saturate_wraps(t, b) ==
  ((Trunc(FullScale * t + SampleDen * b, SampleDen) + 32768) % 65536) - 32768

\* The sample stored at a slot that holds b when a producer adds t.
saturate(t, b) ==
  LET sample == FullScale * t + SampleDen * b
  IN  IF sample > SampleDen * FullScale THEN FullScale
      ELSE IF sample < 0 - SampleDen * FullScale THEN 0 - FullScale
      ELSE Trunc(sample, SampleDen)

\* for (int i=0; i<samples_read; ++i) ...: one producer's samples mixed into
\* its channel; buf is indexed from 1, slot buf_pos is buf[buf_pos + 1].
mixSamples(buf, tmp, samples_read, channel, chans) ==
  [k \in DOMAIN buf |->
     IF (k - 1) % chans = channel /\ (k - 1) \div chans < samples_read
       THEN saturate(tmp[((k - 1) \div chans) + 1], buf[k])
       ELSE buf[k]]

\* A mixing loop that reads from no producer.
mixAios_readsNothing(aios, P, i, frames_to_write, chans, m) == m

\* One producer's turn in the mixing loop: r is what readSamples returned.
mixOne(a, p, r, chans, m) ==
  IF p.idle THEN m
  ELSE [buf |-> mixSamples(m.buf, r.tmp, r.samples_read, p.channel, chans),
        queue |-> [m.queue EXCEPT ![a] = r.rest],
        pulled |-> [m.pulled EXCEPT ![a] = r.samples_read]]

\* The loop over aios that reads from every producer that is not idle.
RECURSIVE mixAios(_, _, _, _, _, _)
mixAios(aios, P, i, frames_to_write, chans, m) ==
  IF i > Len(aios) THEN m
  ELSE CHOOSE res \in
         {mixAios(aios, P, i + 1, frames_to_write, chans, m1) :
            m1 \in {CHOOSE x \in
                      {mixOne(aios[i], p, r, chans, mv) :
                         p \in {P[aios[i]]},
                         r \in {readSamples(P[aios[i]].queue, frames_to_write)},
                         mv \in {m}} : TRUE}} : TRUE

\* memset(buf, 0, sizeof(buf)): the samples of buf that a write of n reads.
ZeroBuf(n) == [k \in 1 .. n |-> 0]

\* The write of a flush that is not rounded up to a whole fragment.
flushRoundUp_none(frames_to_write, fragsize, do_flush) == frames_to_write

\* The write of a flush that is rounded up even when it is a whole number
\* of fragments.
flushRoundUp_always(frames_to_write, fragsize, do_flush) ==
  IF do_flush
    THEN ((frames_to_write \div fragsize) + 1) * fragsize
    ELSE frames_to_write

\* if (do_flush && (frames_to_write % fragsize > 0)) ...
flushRoundUp(frames_to_write, fragsize, do_flush) ==
  IF do_flush /\ (frames_to_write % fragsize > 0)
    THEN ((frames_to_write \div fragsize) + 1) * fragsize
    ELSE frames_to_write

\* A loop that never runs a second iteration.
loopAgain_never(frames_to_write, fragments, fragsize) == FALSE

\* while(frames_to_write == fragments * fragsize)
loopAgain(frames_to_write, fragments, fragsize) ==
  frames_to_write = fragments * fragsize

\* if (frames_to_write == 0) that returns without disabling the watch.
noFrames_keepsWatch(it) == [it EXCEPT !.exit = "disabled"]

\* if (frames_to_write == 0) { watch->setEnabled(false); return; }
noFrames(it) == [it EXCEPT !.exit = "disabled", !.watch = FALSE]

\* One iteration of the do-while loop from the mixing loop to its end, r being
\* what the scan resolved and m the outcome of the mixing loop.
writeFrames(it1, fragments, fragsize, frames, m, written) ==
  LET it2 == [it1 EXCEPT !.queue = m.queue, !.pulled = m.pulled,
                         !.asked = frames]
  IN  IF written = "error" THEN [it2 EXCEPT !.exit = "write_failed"]
      ELSE IF written = "short" THEN [it2 EXCEPT !.exit = "aborted"]
      ELSE [it2 EXCEPT !.exit = "wrote",
                       !.frames = frames,
                       !.buf = m.buf,
                       !.again = loopAgain(frames, fragments, fragsize),
                       !.watch = IF loopAgain(frames, fragments, fragsize)
                                   THEN @ ELSE TRUE]

\* One iteration of the do-while loop of writeSpaceAvailable. info is what
\* SNDCTL_DSP_GETOSPACE answers and written what ::write does. (A value
\* bound through a one-element set is computed once.)
writeIteration(aios, P, chans, enabled, info, written) ==
  LET fragments == info.fragments
      fragsize == info.fragsize \div (SampleBytes * chans)
      free == fragments * fragsize
      it0 == [exit |-> "none", free |-> free, fragsize |-> fragsize,
              resolved |-> 0, asked |-> 0, frames |-> 0, do_flush |-> FALSE,
              again |-> FALSE, n |-> 0, writes |-> 0, entry |-> 0,
              pulled |-> [a \in AudioIOs |-> 0],
              pre |-> [a \in AudioIOs |-> P[a].queue],
              buf |-> <<>>,
              queue |-> [a \in AudioIOs |-> P[a].queue],
              watch |-> enabled]
  IN  IF info.fail THEN [it0 EXCEPT !.exit = "ioctl_failed"]
      ELSE IF Min(BufSize, free) = 0
        THEN [it0 EXCEPT !.exit = "no_space", !.watch = TRUE]
      ELSE
        CHOOSE it \in
          {IF r.frames_to_write = 0
             THEN noFrames([it0 EXCEPT !.resolved = r.frames_to_write,
                                       !.do_flush = r.do_flush])
             ELSE CHOOSE itw \in
                    {writeFrames([it0 EXCEPT !.resolved = r.frames_to_write,
                                             !.do_flush = r.do_flush],
                                 fragments, fragsize, frames, m, written) :
                       frames \in {flushRoundUp(r.frames_to_write, fragsize,
                                                r.do_flush)},
                       m \in {mixAios(aios, P, 1, r.frames_to_write, chans,
                                      [buf |-> ZeroBuf(
                                                 flushRoundUp(r.frames_to_write,
                                                              fragsize, r.do_flush)
                                                 * chans),
                                       queue |-> it0.queue,
                                       pulled |-> it0.pulled])}} : TRUE :
             r \in {resolveFrames(aios, P, Min(BufSize, free), fragsize)}} : TRUE

\* What SNDCTL_DSP_GETOSPACE may answer: -1, or the free fragments and the
\* fragment size in bytes. Every answer keeps fragments * fragsize, in
\* samples, below BufSize.
MaxFragments == 3
FragSizes == {16, 20}
OSpace(f, n, b) == [fail |-> f, fragments |-> n, fragsize |-> b]
OSpaceAnswers ==
  {OSpace(TRUE, 0, 0)}
  \cup {OSpace(FALSE, n, b) : n \in 0 .. MaxFragments, b \in FragSizes}
\* ::write returns the length asked for, -1, or less than was asked for.
WriteResults == {"ok", "error", "short"}

\* The sample blocks an AudioIO may be handed to play, in 1/SampleDen.
Batches == {<<4, 4, 4>>,
            <<-4, -4, 1, -1, 8, -8, 0, 3>>,
            <<4, -4, 2, -2, 4, 4, -4, -4, 1, 4>>}

\* The part of an iteration that is kept as history.
Report(it) == [f \in DOMAIN NoIter |-> it[f]]

\* The frames all producers hold together.
RECURSIVE SumLen(_, _)
SumLen(queue, S) ==
  IF S = {} THEN 0
  ELSE LET a == CHOOSE x \in S : TRUE
       IN  Len(queue[a]) + SumLen(queue, S \ {a})
TotalQueued(queue) == SumLen(queue, AudioIOs)

\* The history with the count of the iterations of this invocation, of those
\* that got to the write, and the frames queued when the handler was entered.
Counted(it, in_loop, before) ==
  [Report(it) EXCEPT
     !.n = IF in_loop THEN before.n + 1 ELSE 1,
     !.writes = (IF in_loop THEN before.writes ELSE 0)
                  + (IF it.exit \in {"wrote", "write_failed", "aborted"}
                       THEN 1 ELSE 0),
     !.entry = IF in_loop THEN before.entry ELSE TotalQueued(it.pre)]

\* The event loop calls writeSpaceAvailable when the write watch is enabled
\* and the descriptor is writable; the loop then runs iteration by iteration.
\* The history counts the iterations of the invocation when count is set.
WriteLoopStep(info, written, count) ==
  /\ pc = "loop" \/ (pc = "idle" /\ write_enabled)
  /\ \E p \in live :
       /\ heap[p].fd >= 0
       /\ heap[p].current_mode \in {MODE_WR, MODE_RDWR}
       /\ \E it \in {writeIteration(heap[p].aios, Producers, channels,
                                    write_enabled, info, written)} :
            /\ io_queue' = it.queue
            /\ write_enabled' = it.watch
            /\ pc' = IF it.exit = "aborted" THEN "aborted"
                     ELSE IF it.again THEN "loop" ELSE "idle"
            /\ iter' = IF count THEN Counted(it, pc = "loop", iter)
                                ELSE Report(it)
  /\ UNCHANGED <<lifeVars, readVars, io_channel, io_idle, io_flush>>

WriteSpaceAvailable(info, written) == WriteLoopStep(info, written, FALSE)

\* void AudioDevice::audioToWriteAvailable(void)
audioToWriteAvailable(enabled) == TRUE

\* void AudioDevice::flushSamples(void)
flushSamples(d, enabled) == IF d.write_watch # NoWatch THEN TRUE ELSE enabled

\* An AudioIO whose queue has run empty is handed samples to play and tells
\* the device.
WriteSamples(a, b) ==
  /\ pc = "idle"
  /\ io_dev[a] # 0
  /\ heap[io_dev[a]].write_watch # NoWatch
  /\ io_queue[a] = <<>>
  /\ ~io_flush[a]
  /\ io_queue' = [io_queue EXCEPT ![a] = b]
  /\ io_idle' = [io_idle EXCEPT ![a] = FALSE]
  /\ write_enabled' = audioToWriteAvailable(write_enabled)
  /\ iter' = NoIter
  /\ UNCHANGED <<lifeVars, readVars, io_channel, io_flush, pc>>

\* An AudioIO that is playing is told to flush and tells the device.
FlushSamples(a) ==
  /\ pc = "idle"
  /\ io_dev[a] # 0
  /\ ~io_idle[a]
  /\ ~io_flush[a]
  /\ io_flush' = [io_flush EXCEPT ![a] = TRUE]
  /\ write_enabled' = flushSamples(heap[io_dev[a]], write_enabled)
  /\ iter' = NoIter
  /\ UNCHANGED <<lifeVars, readVars, io_channel, io_idle, io_queue, pc>>

\* An AudioIO whose flush has drained its queue becomes idle.
AllSamplesFlushed(a) ==
  /\ pc = "idle"
  /\ ~io_idle[a]
  /\ io_flush[a]
  /\ io_queue[a] = <<>>
  /\ io_idle' = [io_idle EXCEPT ![a] = TRUE]
  /\ io_flush' = [io_flush EXCEPT ![a] = FALSE]
  /\ iter' = NoIter
  /\ UNCHANGED <<lifeVars, readVars, io_channel, io_queue, write_enabled, pc>>

\* All answers of a backend that accepts every call.
OkAnswer == Answer("none", Caps, AFMT_S16_NE, 0, 0)

\* Both AudioIOs registered with one device that is then opened for writing.
OpenedForWriting ==
  LET n == CHOOSE x \in Names : TRUE
      idle == [a \in AudioIOs |-> MODE_NONE]
      w1 == registerAudioIO(NoWorld, n, "io1", OkAnswer, idle)
      w2 == registerAudioIO(w1, n, "io2", OkAnswer, idle)
      p == w2.devices[n]
      s == open(Thread(w2.heap[p], w2.fds, w2.watches), MODE_WR, idle, OkAnswer)
  IN  [w2 EXCEPT !.heap[p] = s.d, !.fds = s.fds, !.watches = s.watches]

InitWrite ==
  /\ notrigger = "unset"
  /\ channels \in ChannelCounts
  /\ \E w \in {OpenedForWriting} :
       /\ devices = w.devices
       /\ heap = w.heap
       /\ live = w.live
       /\ fds = w.fds
       /\ watches = w.watches
       /\ io_dev = [a \in AudioIOs |-> w.devices[CHOOSE x \in Names : TRUE]]
  /\ io_mode = [a \in AudioIOs |-> MODE_WR]
  /\ last = NoCall
  /\ io_channel \in [AudioIOs -> 0 .. (channels - 1)]
  /\ io_idle = [a \in AudioIOs |-> TRUE]
  /\ io_flush = [a \in AudioIOs |-> FALSE]
  /\ io_queue = [a \in AudioIOs |-> <<>>]
  /\ write_enabled = TRUE
  /\ pc = "idle"
  /\ iter = NoIter
  /\ NoInput

NextWrite ==
  \/ \E info \in OSpaceAnswers, written \in WriteResults :
        WriteSpaceAvailable(info, written)
  \/ \E a \in AudioIOs, b \in Batches : WriteSamples(a, b)
  \/ \E a \in AudioIOs : FlushSamples(a)
  \/ \E a \in AudioIOs : AllSamplesFlushed(a)

SpecWrite == InitWrite /\ [][NextWrite]_vars

(***************************************************************************)
(* The write loop draining producers that get no new data                  *)
(***************************************************************************)
WriteSpaceAvailableCounted(info, written) == WriteLoopStep(info, written, TRUE)

\* The device open for writing and the producers in any state a producer
\* can be in: idle with nothing queued, or playing or flushing with a block
\* or nothing queued.
InitDrain ==
  /\ notrigger = "unset"
  /\ channels \in ChannelCounts
  /\ \E w \in {OpenedForWriting} :
       /\ devices = w.devices
       /\ heap = w.heap
       /\ live = w.live
       /\ fds = w.fds
       /\ watches = w.watches
       /\ io_dev = [a \in AudioIOs |-> w.devices[CHOOSE x \in Names : TRUE]]
  /\ io_mode = [a \in AudioIOs |-> MODE_WR]
  /\ last = NoCall
  /\ io_channel \in [AudioIOs -> 0 .. (channels - 1)]
  /\ io_idle \in [AudioIOs -> BOOLEAN]
  /\ io_flush \in [AudioIOs -> BOOLEAN]
  /\ io_queue \in [AudioIOs -> Batches \cup {<<>>}]
  /\ \A a \in AudioIOs : io_idle[a] => ~io_flush[a] /\ io_queue[a] = <<>>
  /\ write_enabled = TRUE
  /\ pc = "idle"
  /\ iter = NoIter
  /\ NoInput

NextDrain ==
  \E info \in OSpaceAnswers, written \in WriteResults :
     WriteSpaceAvailableCounted(info, written)

SpecDrain == InitDrain /\ [][NextDrain]_vars

\* The same producers with a backend whose calls succeed and that keeps
\* freeing space: an iteration that finds free space is taken whenever the
\* handler can run.
FreeSpaceAnswers == {info \in OSpaceAnswers : ~info.fail /\ info.fragments > 0}
WriteWithSpace == \E info \in FreeSpaceAnswers : WriteSpaceAvailable(info, "ok")
WriteWithoutSpace ==
  \E info \in OSpaceAnswers \ FreeSpaceAnswers : WriteSpaceAvailable(info, "ok")

NextFlush == WriteWithSpace \/ WriteWithoutSpace

\* Every producer is idle or requests flush.
InitFlush ==
  /\ InitDrain
  /\ \A a \in AudioIOs : ~io_idle[a] => io_flush[a]

SpecFlush == InitFlush /\ [][NextFlush]_vars /\ WF_vars(WriteWithSpace)

(***************************************************************************)
(* Properties of the registry and of the mode negotiation                  *)
(***************************************************************************)
\* The device the last call was made on, after the call.
LastDevice == heap[io_dev[last.io]]

\* C1: for every device, use_count equals the number of AudioIOs in its client
\* list (and the number of AudioIOs that hold it); the registry holds at most
\* one device object per name; a device object exists for a name if and only
\* if the registry maps the name to it and its use_count is positive.
C1_UseCountMatchesClients ==
  /\ \A p \in live :
        /\ heap[p].use_count = Len(heap[p].aios)
        /\ heap[p].use_count = Cardinality({a \in AudioIOs : io_dev[a] = p})
        /\ heap[p].use_count > 0
        /\ devices[heap[p].dev_name] = p
  /\ \A n \in Names :
        /\ Cardinality({p \in live : heap[p].dev_name = n}) <= 1
        /\ devices[n] # 0 => devices[n] \in live /\ heap[devices[n]].dev_name = n

\* A device that two AudioIOs share, after one more of them has unregistered
\* from a device that stays.
C1_Witness ==
  /\ last.op = "unregister"
  /\ \E p \in live : heap[p].use_count = 1 /\ Len(heap[p].aios) = 1

\* C2: the mode of a device covers the directions its non-idle AudioIOs use,
\* and the backend handle is closed only when all its AudioIOs are idle.
C2_ModeCoversActiveClients ==
  \A p \in live :
    /\ \A i \in 1 .. Len(heap[p].aios) :
          /\ io_mode[heap[p].aios[i]] \in {MODE_RD, MODE_RDWR}
                => heap[p].current_mode \in {MODE_RD, MODE_RDWR}
          /\ io_mode[heap[p].aios[i]] \in {MODE_WR, MODE_RDWR}
                => heap[p].current_mode \in {MODE_WR, MODE_RDWR}
    /\ heap[p].fd = -1 => AllIdle(heap[p], io_mode)

\* C3: when open() returns failure the device is closed: no backend handle, no
\* watch, and current_mode is neither the open mode asked for nor the duplex
\* mode the request resolves to.
C3_FailedOpenLeavesClosed ==
  (last.op = "open" /\ ~last.ret) =>
    /\ LastDevice.fd = -1
    /\ LastDevice.read_watch = NoWatch
    /\ LastDevice.write_watch = NoWatch
    /\ LastDevice.current_mode \notin ({last.req, MODE_RDWR} \ {MODE_NONE})

\* C4: open() for the other single direction of a device open in one single
\* direction ends in duplex mode when it succeeds with a backend that reports
\* the full-duplex capability, and fails, not in duplex mode, with a backend
\* that does not report it.
C4_EscalationNeedsDuplex ==
  [][(/\ last'.op = "open"
      /\ heap[io_dev[last'.io]].current_mode \in {MODE_RD, MODE_WR}
      /\ last'.req \in {MODE_RD, MODE_WR} \ {heap[io_dev[last'.io]].current_mode})
       => IF isFullDuplexCapable(heap'[io_dev[last'.io]])
            THEN last'.ret => heap'[io_dev[last'.io]].current_mode = MODE_RDWR
            ELSE ~last'.ret /\ heap'[io_dev[last'.io]].current_mode # MODE_RDWR
    ]_vars

\* C5: open(MODE_NONE) on an open device closes it when all its AudioIOs are
\* idle, and otherwise makes no backend call and leaves the mode, the handle
\* and the watches as they were.
C5_OpenNoneOnlyCloses ==
  [][(/\ last'.op = "open"
      /\ last'.req = MODE_NONE
      /\ heap[io_dev[last'.io]].current_mode # MODE_NONE)
       => IF AllIdle(heap[io_dev[last'.io]], io_mode)
            THEN /\ heap'[io_dev[last'.io]].current_mode = MODE_NONE
                 /\ heap'[io_dev[last'.io]].fd = -1
                 /\ "open" \notin last'.calls
            ELSE /\ heap'[io_dev[last'.io]].current_mode
                      = heap[io_dev[last'.io]].current_mode
                 /\ heap'[io_dev[last'.io]].fd = heap[io_dev[last'.io]].fd
                 /\ watches' = watches
                 /\ fds' = fds
                 /\ last'.calls = {}
    ]_vars

\* C6: when unregisterAudioIO removes the last AudioIO of a device, the
\* backend handle the device held is closed and its watches are gone.
C6_LastUnregisterTearsDown ==
  [][(/\ last'.op = "unregister"
      /\ io_dev[last'.io] \in live \ live')
       => /\ heap[io_dev[last'.io]].fd \notin fds'
          /\ heap[io_dev[last'.io]].read_watch \notin watches'
          /\ heap[io_dev[last'.io]].write_watch \notin watches'
    ]_vars

(***************************************************************************)
(* The input side: audioReadHandler                                        *)
(***************************************************************************)
\* The number of fragments read_buf is allocated for (the header's value).
BUF_FRAG_COUNT == 4
\* static_cast<float>(read_buf[i]) / 32768.0
InputScale == 32768
\* A float as an exact fraction.
Float(num, den) == [num |-> num, den |-> den]
\* What the samples array holds before an event writes it.
Stale == Float(0, 0)

\* The inner loop for one channel that copies a contiguous block instead of
\* taking every channels-th sample.
RECURSIVE deinterleave_contiguous(_, _, _, _, _)
deinterleave_contiguous(samples, read_buf, i, cnt, chans) ==
  IF i >= cnt THEN samples
  ELSE deinterleave_contiguous(
         [samples EXCEPT ![(i \div chans) + 1] =
                            Float(read_buf[(i \div chans) + 1], InputScale)],
         read_buf, i + chans, cnt, chans)

\* for (int i=ch; i<cnt; i += channels) samples[i/channels] = ...; arrays are
\* indexed from 1, so read_buf[i] of the code is read_buf[i + 1].
RECURSIVE deinterleave(_, _, _, _, _)
deinterleave(samples, read_buf, i, cnt, chans) ==
  IF i >= cnt THEN samples
  ELSE deinterleave(
         [samples EXCEPT ![(i \div chans) + 1] =
                            Float(read_buf[i + 1], InputScale)],
         read_buf, i + chans, cnt, chans)

\* void AudioIO::audioRead(float *samples, int count): the AudioIO takes a
\* copy of the first count samples.
audioRead(calls, samples, count) == Append(calls, SubSeq(samples, 1, count))

\* for (it=aios.begin(); ...) if ((*it)->channel() == ch) audioRead(...)
RECURSIVE deliver(_, _, _, _, _, _, _)
deliver(aios, i, chan, ch, samples, count, got) ==
  IF i > Len(aios) THEN got
  ELSE deliver(aios, i + 1, chan, ch, samples, count,
               IF chan[aios[i]] = ch
                 THEN [got EXCEPT ![aios[i]] = audioRead(@, samples, count)]
                 ELSE got)

\* for (int ch=0; ch<channels; ++ch) ...
RECURSIVE demux(_, _, _, _, _, _, _)
demux(aios, chan, ch, chans, read_buf, cnt, st) ==
  IF ch >= chans THEN st
  ELSE LET smp == deinterleave(st.samples, read_buf, ch, cnt, chans)
       IN  demux(aios, chan, ch + 1, chans, read_buf, cnt,
                 [samples |-> smp,
                  got |-> deliver(aios, 1, chan, ch, smp, cnt \div chans,
                                  st.got)])

\* What SNDCTL_DSP_GETISPACE may answer: -1, or the fragments waiting and the
\* fragment size in bytes.
MaxInFragments == 5
InFragSize == 4
ISpaceAnswers ==
  {OSpace(TRUE, 0, 0)}
  \cup {OSpace(FALSE, n, InFragSize) : n \in 0 .. MaxInFragments}
\* The 16-bit samples the device may hand over, by position.
RawData == {[i \in 1 .. (BUF_FRAG_COUNT * InFragSize) |-> 100 * i - 300],
            [i \in 1 .. (BUF_FRAG_COUNT * InFragSize) |->
               IF i % 2 = 0 THEN 0 - 32768 ELSE 32767]}
\* AudioIO::channel() of an AudioIO that reads; 2 is no channel of the device.
InputChannels == 0 .. 2

\* void AudioDevice::audioReadHandler(FdWatch *watch). info is what
\* SNDCTL_DSP_GETISPACE answers, bytes what ::read returns (-1 or a length up
\* to the one asked for) and data what it stores in read_buf.
audioReadHandler(aios, chan, chans, info, bytes, data) ==
  LET none == [a \in AudioIOs |-> <<>>]
      ev == [exit |-> "none", fragments |-> info.fragments, cnt |-> 0,
             raw |-> <<>>, got |-> none]
      cnt == bytes \div SampleBytes
      st == demux(aios, chan, 0, chans, data, cnt,
                  [samples |-> [k \in 1 .. (BUF_FRAG_COUNT * InFragSize) |-> Stale],
                   got |-> none])
  IN  IF info.fail THEN [ev EXCEPT !.exit = "ioctl_failed"]
      ELSE IF ~(info.fragments > 0) THEN [ev EXCEPT !.exit = "no_fragments"]
      ELSE IF bytes = -1 THEN [ev EXCEPT !.exit = "read_failed"]
      ELSE [ev EXCEPT !.exit = "delivered", !.cnt = cnt,
                      !.raw = SubSeq(data, 1, cnt), !.got = st.got]

\* int frags_to_read = info.fragments > BUF_FRAG_COUNT ? ...
frags_to_read(info) == IF info.fragments > BUF_FRAG_COUNT
                         THEN BUF_FRAG_COUNT ELSE info.fragments

\* The event loop calls audioReadHandler when the descriptor is readable;
\* ::read returns no more than the length it is asked for.
AudioReadHandler(info, bytes, data) ==
  /\ bytes <= frags_to_read(info) * info.fragsize
  /\ \E p \in live :
       /\ heap[p].read_watch # NoWatch
       /\ \E ev \in {audioReadHandler(heap[p].aios, io_channel, channels,
                                      info, bytes, data)} :
            /\ inp' = [f \in DOMAIN NoRead |-> ev[f]]
            /\ rx' = ev.got
  /\ UNCHANGED <<lifeVars, writeVars>>

\* Both AudioIOs registered with one device that is then opened for reading.
OpenedForReading ==
  LET n == CHOOSE x \in Names : TRUE
      idle == [a \in AudioIOs |-> MODE_NONE]
      w1 == registerAudioIO(NoWorld, n, "io1", OkAnswer, idle)
      w2 == registerAudioIO(w1, n, "io2", OkAnswer, idle)
      p == w2.devices[n]
      s == open(Thread(w2.heap[p], w2.fds, w2.watches), MODE_RD, idle, OkAnswer)
  IN  [w2 EXCEPT !.heap[p] = s.d, !.fds = s.fds, !.watches = s.watches]

InitRead ==
  /\ notrigger = "unset"
  /\ channels \in ChannelCounts
  /\ \E w \in {OpenedForReading} :
       /\ devices = w.devices
       /\ heap = w.heap
       /\ live = w.live
       /\ fds = w.fds
       /\ watches = w.watches
       /\ io_dev = [a \in AudioIOs |-> w.devices[CHOOSE x \in Names : TRUE]]
  /\ io_mode = [a \in AudioIOs |-> MODE_RD]
  /\ last = NoCall
  /\ io_channel \in [AudioIOs -> InputChannels]
  /\ io_idle = [a \in AudioIOs |-> TRUE]
  /\ io_flush = [a \in AudioIOs |-> FALSE]
  /\ io_queue = [a \in AudioIOs |-> <<>>]
  /\ write_enabled = FALSE
  /\ pc = "idle"
  /\ iter = NoIter
  /\ NoInput

NextRead ==
  \E info \in ISpaceAnswers, data \in RawData,
     bytes \in -1 .. (BUF_FRAG_COUNT * InFragSize) :
        AudioReadHandler(info, bytes, data)

SpecRead == InitRead /\ [][NextRead]_vars

(***************************************************************************)
(* Properties of the input side                                            *)
(***************************************************************************)
\* C11: an input-ready event that reads cnt samples with channels = C makes
\* one audioRead() call on every AudioIO whose channel c is in 0 .. C-1, of
\* exactly cnt / C samples, the k-th being the raw sample at position
\* k*C + c divided by 32768; AudioIOs on the same channel get the same data;
\* an AudioIO on no channel of the device gets no call; and an event that
\* finds no fragment, or fails, makes no call at all.
C11_DemuxDeliversChannelSlices ==
  /\ inp.exit = "delivered" =>
        \A a \in AudioIOs :
           IF io_channel[a] \in 0 .. (channels - 1)
             THEN /\ Len(rx[a]) = 1
                  /\ Len(rx[a][1]) = inp.cnt \div channels
                  /\ \A k \in 0 .. ((inp.cnt \div channels) - 1) :
                        rx[a][1][k + 1]
                          = Float(inp.raw[k * channels + io_channel[a] + 1], 32768)
                  /\ \A b \in AudioIOs :
                        io_channel[b] = io_channel[a] => rx[b] = rx[a]
             ELSE rx[a] = <<>>
  /\ inp.exit # "delivered" => \A a \in AudioIOs : rx[a] = <<>>
  /\ (inp.exit \notin {"none", "ioctl_failed"} /\ inp.fragments = 0)
        => inp.exit = "no_fragments"

\* Two channels, both AudioIOs on channel 1, one AudioIO-less channel 0, and
\* at least two frames read.
C11_Witness ==
  /\ inp.exit = "delivered"
  /\ channels = 2
  /\ inp.cnt >= 4
  /\ \A a \in AudioIOs : io_channel[a] = 1 /\ Len(rx[a]) = 1
                          /\ Len(rx[a][1]) = inp.cnt \div 2

(***************************************************************************)
(* Properties of the write loop                                            *)
(***************************************************************************)
\* The AudioIOs that were not idle during the last iteration.
Active == {a \in AudioIOs : ~io_idle[a]}
\* samplesAvailable() of a producer when the last iteration began.
Avail(a) == Len(iter.pre[a])
\* The largest queue length among a set of producers.
MaxAvail(S) == IF S = {} THEN 0
               ELSE CHOOSE n \in {Avail(a) : a \in S} : \A a \in S : Avail(a) <= n
\* The last iteration got as far as pulling samples from the producers.
Mixed == iter.exit \in {"wrote", "write_failed", "aborted"}
\* The producers whose sample for frame f went into channel c.
Contributors(f, c) ==
  {a \in Active : io_channel[a] = c /\ f < iter.pulled[a]}
\* The sample of the last write at frame f, channel c.
Written(f, c) == iter.buf[f * channels + c + 1]

\* C7: in every iteration of the write loop the number of frames pulled and
\* written is at most avail(c) for every non-idle producer c that does not
\* request flush, every producer's queue shrinks by at most that number, and
\* what a producer keeps is the unread rest of its queue.
C7_NonFlushBoundsWrite ==
  iter.exit # "none" =>
    /\ \A c \in Active :
          ~io_flush[c] => /\ iter.frames <= Avail(c)
                          /\ iter.resolved <= Avail(c)
                          /\ \A a \in AudioIOs : iter.pulled[a] <= Avail(c)
    /\ \A a \in AudioIOs :
          /\ iter.pulled[a] <= iter.resolved
          /\ iter.exit = "wrote" => iter.pulled[a] <= iter.frames
          /\ Avail(a) - Len(io_queue[a]) = iter.pulled[a]
          /\ io_queue[a] = SubSeq(iter.pre[a], iter.pulled[a] + 1, Avail(a))

\* Two producers that do not flush, device space for more than the shorter
\* queue: the write is as long as the shorter queue and the longer one keeps
\* its rest.
C7_Witness ==
  /\ iter.exit = "wrote"
  /\ \E a, b \in Active :
        /\ ~io_flush[a] /\ ~io_flush[b]
        /\ Avail(a) < Avail(b)
        /\ Avail(a) < iter.free
        /\ iter.frames = Avail(a)
        /\ Len(io_queue[b]) = Avail(b) - Avail(a)

C9_NothingToWriteDisablesWatch ==
  (/\ iter.exit \notin {"none", "ioctl_failed"}
   /\ iter.free > 0
   /\ \/ iter.resolved = 0
      \/ \A a \in Active : Avail(a) = 0
      \/ \E a \in Active : ~io_flush[a] /\ Avail(a) < iter.fragsize)
  => /\ iter.exit = "disabled"
     /\ ~write_enabled
     /\ pc = "idle"
     /\ iter.frames = 0
     /\ iter.buf = <<>>
     /\ \A a \in AudioIOs : iter.pulled[a] = 0 /\ io_queue[a] = iter.pre[a]

\* A producer that does not flush holds data, less than one fragment, and
\* the handler has run with free space.
C9_Witness ==
  /\ iter.exit = "disabled"
  /\ iter.free > 0
  /\ ~write_enabled
  /\ \E a \in Active : /\ ~io_flush[a]
                       /\ 0 < Len(io_queue[a])
                       /\ Len(io_queue[a]) < iter.fragsize

\* C10: every sample of a write lies in -32767 .. 32767; the sum at a slot is
\* clamped, never wrapped: contributions of one sign give a sample of that
\* sign, producers that all supply +1.0 give exactly 32767 and producers that
\* all supply -1.0 give exactly -32767.
C10_MixingSaturates ==
  iter.exit = "wrote" =>
    \A f \in 0 .. (iter.frames - 1), c \in 0 .. (channels - 1) :
      /\ Written(f, c) \in (0 - FullScale) .. FullScale
      /\ (\A a \in Contributors(f, c) : iter.pre[a][f + 1] >= 0)
            => Written(f, c) >= 0
      /\ (\A a \in Contributors(f, c) : iter.pre[a][f + 1] <= 0)
            => Written(f, c) <= 0
      /\ (/\ Contributors(f, c) # {}
          /\ \A a \in Contributors(f, c) : iter.pre[a][f + 1] >= SampleDen)
            => Written(f, c) = FullScale
      /\ (/\ Contributors(f, c) # {}
          /\ \A a \in Contributors(f, c) : iter.pre[a][f + 1] <= 0 - SampleDen)
            => Written(f, c) = 0 - FullScale

\* Two producers supply +1.0 at the same frame of the same channel, and both
\* supply -1.0 at another frame of the same write.
C10_Witness ==
  /\ iter.exit = "wrote"
  /\ \E f, g \in 0 .. (iter.frames - 1), c \in 0 .. (channels - 1) :
        /\ Cardinality(Contributors(f, c)) = 2
        /\ \A a \in Contributors(f, c) : iter.pre[a][f + 1] = SampleDen
        /\ Written(f, c) = FullScale
        /\ Cardinality(Contributors(g, c)) = 2
        /\ \A a \in Contributors(g, c) : iter.pre[a][g + 1] = 0 - SampleDen
        /\ Written(g, c) = 0 - FullScale

\* The fewest frames among the free space, the longest queue and the queues of
\* the producers that do not flush, when the last iteration began.
Supply ==
  LET S == {iter.free, MaxAvail(Active)}
             \cup {Avail(c) : c \in {a \in Active : ~io_flush[a]}}
  IN  CHOOSE n \in S : \A k \in S : n <= k

\* C12: every write the loop issues, whether it succeeds or not, asks for a
\* positive whole number of fragments: an iteration that does not flush asks
\* for the largest fragment multiple the producers and the free space supply
\* (and issues no write when that is zero), an iteration that flushes asks
\* for the smallest fragment multiple that holds the longest queue.
C12_WritesWholeFragments ==
  /\ Mixed =>
        /\ iter.asked > 0
        /\ iter.asked % iter.fragsize = 0
        /\ iter.exit = "wrote" => iter.frames = iter.asked
        /\ ~iter.do_flush => /\ iter.asked <= Supply
                              /\ Supply - iter.asked < iter.fragsize
        /\ iter.do_flush => /\ iter.asked >= MaxAvail(Active)
                             /\ iter.asked - MaxAvail(Active) < iter.fragsize
  /\ ~Mixed => iter.asked = 0 /\ iter.frames = 0

\* A write that does not flush and leaves a partial fragment with the
\* producers.
C12_Witness ==
  /\ iter.exit = "wrote"
  /\ ~iter.do_flush
  /\ iter.frames < Supply
  /\ iter.frames >= iter.fragsize

\* C13: after a write that succeeds the handler runs another iteration if and
\* only if the frames written equal the free frames queried at the start of
\* the iteration; when it leaves the loop after a write that did not use all
\* the free space, or because there was no free space, it returns with the
\* write watch enabled; and the handler disables the watch only when it
\* finds no frames to write.
C13_LoopContinuesOnFullWrite ==
  [][/\ iter'.exit = "wrote" =>
           /\ pc' = "loop" <=> iter'.frames = iter'.free
           /\ pc' # "loop" => pc' = "idle" /\ write_enabled'
     /\ iter'.exit = "no_space" => pc' = "idle" /\ write_enabled'
     /\ (write_enabled /\ ~write_enabled') => iter'.exit = "disabled"
     /\ pc = "loop" => iter'.exit # "none"
    ]_vars

\* A write that used all the free space: the handler is in the loop again.
C13_Witness ==
  /\ iter.exit = "wrote"
  /\ iter.frames = iter.free
  /\ pc = "loop"

\* C14: one invocation of the handler ends: every iteration that gets to the
\* write takes at least one frame from the producers, the handler stays in
\* the loop only after a write that succeeded, so the iterations that get to
\* the write number at most the frames queued at entry and at most one more
\* iteration follows them, whatever free space the backend reports.
C14_InvocationTerminates ==
  iter.exit # "none" =>
    /\ Mixed => TotalQueued(io_queue) < TotalQueued(iter.pre)
    /\ pc = "loop" => iter.exit = "wrote"
    /\ TotalQueued(io_queue) <= iter.entry - iter.writes
    /\ iter.writes <= iter.entry
    /\ iter.n <= iter.writes + 1
    /\ iter.n <= iter.entry + 1

\* An invocation that has ended after three iterations.
C14_Witness ==
  /\ pc = "idle"
  /\ iter.n = 3
  /\ iter.writes = 2
  /\ iter.exit = "disabled"

\* Every producer that is not idle requests flush.
AllFlushing == \A a \in AudioIOs : ~io_idle[a] => io_flush[a]
\* No producer holds a frame.
AllEmpty == \A a \in AudioIOs : io_queue[a] = <<>>

AlreadyServed(cur, req) ==
  \/ req = cur
  \/ cur = MODE_RDWR /\ req \in {MODE_RD, MODE_WR}

\* C16: open(m) with m equal to current_mode, and open(MODE_RD) or
\* open(MODE_WR) while current_mode is MODE_RDWR, returns true, makes no
\* backend call and leaves the device (mode, descriptor, both watches and the
\* buffers), the process's descriptors and its watches unchanged.
C16_OpenServedIsNoOp ==
  [][(/\ last'.op = "open"
      /\ io_dev[last'.io] # 0
      /\ AlreadyServed(heap[io_dev[last'.io]].current_mode, last'.req))
     => (/\ last'.ret
         /\ last'.calls = {}
         /\ heap' = heap
         /\ fds' = fds
         /\ watches' = watches)]_vars

\* open(MODE_RD) has just returned true on a device that serves MODE_RDWR
\* for the other AudioIO, and has made no backend call.
C16_Witness ==
  /\ last.op = "open"
  /\ last.req = MODE_RD
  /\ last.ret
  /\ last.calls = {}
  /\ LastDevice.current_mode = MODE_RDWR
  /\ LastDevice.fd # -1
  /\ LastDevice.read_watch # NoWatch
  /\ LastDevice.write_watch # NoWatch
  /\ \E a \in AudioIOs \ {last.io} : io_mode[a] = MODE_RDWR

\* The steps in which an AudioIO registers.
Registers == last'.op = "register" /\ io_dev[last'.io] = 0 /\ io_dev'[last'.io] # 0

\* C17: a registration that creates the device leaves it closed whatever
\* the backend answered to the probe (mode MODE_NONE, no descriptor, no
\* watch, nothing of the probe left open in the process), with use_count 1
\* and the registering AudioIO as its only client; a registration with a
\* device that exists makes no backend call and changes nothing of the
\* device but its use count and its client list.
C17_ProbeLeavesDeviceClosed ==
  [][Registers =>
       LET io == last'.io
           p == io_dev'[io]
       IN  IF p \notin live
             THEN /\ heap'[p].current_mode = MODE_NONE
                  /\ heap'[p].fd = -1
                  /\ heap'[p].read_watch = NoWatch
                  /\ heap'[p].write_watch = NoWatch
                  /\ fds' = fds
                  /\ watches' = watches
                  /\ heap'[p].use_count = 1
                  /\ heap'[p].aios = <<io>>
             ELSE /\ last'.calls = {}
                  /\ heap'[p] = [heap[p] EXCEPT !.use_count = @ + 1,
                                                !.aios = Append(@, io)]
                  /\ fds' = fds
                  /\ watches' = watches]_vars

\* A registration has just created a device whose probe opened the backend,
\* read the capabilities and closed it again.
C17_Witness ==
  /\ last.op = "register"
  /\ "open" \in last.calls
  /\ "close" \in last.calls
  /\ LastDevice.use_count = 1
  /\ LastDevice.aios = <<last.io>>
  /\ LastDevice.current_mode = MODE_NONE
  /\ LastDevice.fd = -1
  /\ LastDevice.device_caps # {}

(***************************************************************************)
(* The write loop at the capacity of the mix buffer                        *)
(***************************************************************************)
\* The most fragments the device reports free in this geometry.
MaxFreeFragments == 3
\* info.fragsize in bytes: 8192 or 32768 frames of two channels, 16384 or
\* 65536 frames of one.
LargeFragSizes == {32768, 131072}
LargeOSpaceAnswers ==
  {OSpace(TRUE, 0, 0)}
  \cup {OSpace(FALSE, n, b) : n \in 0 .. MaxFreeFragments, b \in LargeFragSizes}

\* The frames a producer may hold, all silent: the sample values play no
\* part in where they are stored.
QueueLengths == {10, 40000}
Silence(n) == [k \in 1 .. n |-> 0]

\* One iteration of the do-while loop, with the frame counts and the queues
\* as writeSpaceAvailable computes them and the stored sample values left
\* out; every write is taken to succeed.
frameIteration(aios, P, chans, enabled, info) ==
  LET fragments == info.fragments
      fragsize == info.fragsize \div (SampleBytes * chans)
      free == fragments * fragsize
      it0 == [exit |-> "none", free |-> free, fragsize |-> fragsize,
              resolved |-> 0, asked |-> 0, frames |-> 0, do_flush |-> FALSE,
              again |-> FALSE, n |-> 0, writes |-> 0, entry |-> 0,
              pulled |-> [a \in AudioIOs |-> 0],
              pre |-> [a \in AudioIOs |-> P[a].queue],
              buf |-> <<>>,
              queue |-> [a \in AudioIOs |-> P[a].queue],
              watch |-> enabled]
  IN  IF info.fail THEN [it0 EXCEPT !.exit = "ioctl_failed"]
      ELSE IF Min(BufSize, free) = 0
        THEN [it0 EXCEPT !.exit = "no_space", !.watch = TRUE]
      ELSE
        CHOOSE it \in
          {IF r.frames_to_write = 0
             THEN noFrames([it0 EXCEPT !.resolved = r.frames_to_write,
                                       !.do_flush = r.do_flush])
             ELSE writeFrames([it0 EXCEPT !.resolved = r.frames_to_write,
                                          !.do_flush = r.do_flush],
                              fragments, fragsize,
                              flushRoundUp(r.frames_to_write, fragsize, r.do_flush),
                              mixAios(aios, P, 1, r.frames_to_write, chans,
                                      [buf |-> <<>>, queue |-> it0.queue,
                                       pulled |-> it0.pulled]),
                              "ok") :
             r \in {resolveFrames(aios, P, Min(BufSize, free), fragsize)}} : TRUE

\* int buf_pos = i * channels + channel, for the last sample a producer
\* that handed over n samples stores.
LastSlot(n, chans, channel) == (n - 1) * chans + channel

\* The iteration stays inside int16_t buf[32768]: every slot the mixing
\* loop stores to and every sample ::write is told to read.
InsideBuf(it, chans, channel) ==
  /\ it.asked * chans <= BufSize
  /\ \A a \in AudioIOs :
        it.pulled[a] > 0 => LastSlot(it.pulled[a], chans, channel[a]) < BufSize

\* An iteration at capacity that stays inside the buffer.
WriteInsideBuf(info) ==
  /\ pc = "loop" \/ (pc = "idle" /\ write_enabled)
  /\ \E p \in live :
       /\ heap[p].fd >= 0
       /\ heap[p].current_mode \in {MODE_WR, MODE_RDWR}
       /\ \E it \in {frameIteration(heap[p].aios, Producers, channels,
                                    write_enabled, info)} :
            /\ InsideBuf(it, channels, io_channel)
            /\ io_queue' = it.queue
            /\ write_enabled' = it.watch
            /\ pc' = IF it.again THEN "loop" ELSE "idle"
            /\ iter' = Report(it)
  /\ UNCHANGED <<lifeVars, readVars, io_channel, io_idle, io_flush>>

\* An iteration at capacity that stores or reads past the end of buf: the
\* behaviour is undefined, the handler may return with the watch in either
\* state, go round the loop again, or the process may die.
WriteOutsideBuf(info) ==
  /\ pc = "loop" \/ (pc = "idle" /\ write_enabled)
  /\ \E p \in live :
       /\ heap[p].fd >= 0
       /\ heap[p].current_mode \in {MODE_WR, MODE_RDWR}
       /\ \E it \in {frameIteration(heap[p].aios, Producers, channels,
                                    write_enabled, info)} :
            /\ ~InsideBuf(it, channels, io_channel)
            /\ io_queue' = it.queue
            /\ write_enabled' \in BOOLEAN
            /\ pc' \in {"idle", "loop", "aborted"}
            /\ iter' = [Report(it) EXCEPT !.exit = "undefined"]
  /\ UNCHANGED <<lifeVars, readVars, io_channel, io_idle, io_flush>>

\* The device open for writing; each producer plays or flushes a queue of
\* either length.
InitCapacity ==
  /\ notrigger = "unset"
  /\ channels \in ChannelCounts
  /\ \E w \in {OpenedForWriting} :
       /\ devices = w.devices
       /\ heap = w.heap
       /\ live = w.live
       /\ fds = w.fds
       /\ watches = w.watches
       /\ io_dev = [a \in AudioIOs |-> w.devices[CHOOSE x \in Names : TRUE]]
  /\ io_mode = [a \in AudioIOs |-> MODE_WR]
  /\ last = NoCall
  /\ io_channel \in [AudioIOs -> 0 .. (channels - 1)]
  /\ io_idle = [a \in AudioIOs |-> FALSE]
  /\ io_flush \in [AudioIOs -> BOOLEAN]
  /\ io_queue \in [AudioIOs -> {Silence(n) : n \in QueueLengths}]
  /\ write_enabled = TRUE
  /\ pc = "idle"
  /\ iter = NoIter
  /\ NoInput

NextCapacity ==
  \/ \E info \in LargeOSpaceAnswers : WriteInsideBuf(info)
  \/ \E info \in LargeOSpaceAnswers : WriteOutsideBuf(info)

SpecCapacity == InitCapacity /\ [][NextCapacity]_vars

\* C18: the mix buffer is never accessed out of bounds: in every iteration,
\* for every channel count, fragment size and number of free fragments, the
\* samples the write is told to read (frames_to_write * channels, after the
\* flush round-up) are at most the 32768 the buffer holds, and so is every
\* slot i * channels + channel the mixing loop stores to.
C18_MixBufferInBounds ==
  /\ iter.asked * channels <= BufSize
  /\ \A a \in AudioIOs :
        iter.pulled[a] > 0 =>
          LastSlot(iter.pulled[a], channels, io_channel[a]) <= BufSize

\* Two channels, three free fragments of 8192 frames and a producer that
\* holds 40000 frames and does not flush: 24576 frames are mixed and written.
C18_Witness ==
  /\ channels = 2
  /\ iter.exit = "undefined"
  /\ ~iter.do_flush
  /\ iter.fragsize = 8192
  /\ iter.asked = 24576
  /\ \E a \in AudioIOs : iter.pulled[a] = 24576

(***************************************************************************)
(* The write and the free space                                            *)
(***************************************************************************)
\* C19: no write exceeds the free space SNDCTL_DSP_GETOSPACE reported at the
\* start of its iteration: the frames the write asks for, after the rounding
\* down of a write that does not flush or the rounding up of a flush, are at
\* most fragments * fragsize, and so are the frames a successful write took.
C19_WriteFitsFreeSpace ==
  Mixed => /\ iter.asked <= iter.free
           /\ iter.frames <= iter.free

\* A flush of less than the free space that the rounding up has made
\* exactly as long as the free space: one fragment was free.
C19_Witness ==
  /\ iter.exit = "wrote"
  /\ iter.do_flush
  /\ iter.resolved < iter.free
  /\ iter.frames = iter.free
  /\ iter.free = iter.fragsize

(***************************************************************************)
(* The watches and the mode                                                *)
(***************************************************************************)
\* The watches of device d agree with its mode, and a device in a mode has
\* its descriptor open.
WatchesAgree(d) ==
  /\ d.write_watch # NoWatch <=> d.current_mode \in {MODE_WR, MODE_RDWR}
  /\ d.read_watch # NoWatch <=> d.current_mode \in {MODE_RD, MODE_RDWR}
  /\ d.current_mode # MODE_NONE => d.fd # -1

\* assert(fd >= 0); assert((current_mode == MODE_WR) || (current_mode ==
\* MODE_RDWR)); at the start of writeSpaceAvailable.
HandlerAsserts(d) ==
  /\ d.fd >= 0
  /\ d.current_mode \in {MODE_WR, MODE_RDWR}

\* C20: between operations the watches of every device agree with its mode
\* (a write watch exists exactly in MODE_WR and MODE_RDWR, a read watch
\* exactly in MODE_RD and MODE_RDWR, and a device in a mode has its
\* descriptor open), so the assertions at the start of writeSpaceAvailable
\* hold for every device whose write watch can fire.
C20_WatchesAgreeWithMode ==
  \A p \in live :
    /\ WatchesAgree(heap[p])
    /\ heap[p].write_watch # NoWatch =>
          /\ HandlerAsserts(heap[p])
          /\ heap[p].write_watch \in watches
          /\ heap[p].write_watch.fd = heap[p].fd

\* An open() that escalates to MODE_RDWR for a second AudioIO has failed
\* after the watches were created, and the device is left in MODE_RDWR with
\* its descriptor and both watches.
C20_Witness ==
  /\ last.op = "open"
  /\ ~last.ret
  /\ LastDevice.current_mode = MODE_RDWR
  /\ LastDevice.fd # -1
  /\ LastDevice.read_watch # NoWatch
  /\ LastDevice.write_watch # NoWatch
  /\ \E a \in AudioIOs \ {last.io} : io_mode[a] # MODE_NONE

====
